---- MODULE Spec2Model ----
(***************************************************************************)
(* Shopify webhook handler (src/index.js): HMAC verification of the raw    *)
(* body, payload validation, duplicate check against the order table, and  *)
(* insertion of one order row and the product rows with bounded retry.     *)
(*                                                                         *)
(* A request handler runs synchronously up to its next `await`, so every   *)
(* action below is one such run: from the arrival of the request, or from  *)
(* the return of the warehouse call it awaits, up to the next warehouse    *)
(* call (which it issues) or up to the response.  A warehouse call takes   *)
(* effect at the moment it returns.                                        *)
(***************************************************************************)
EXTENDS Integers, Sequences, FiniteSets, TLC

(* ------------------------------ bounds -------------------------------- *)

\* Requests the server receives in one run.
NReq == 2
\* Line items in one order.
MaxItems == 1
\* Warehouse calls that fail for reasons of the warehouse (network, quota).
MaxFailures == 5
\* Requests that are not a storefront delivery of well-formed text with its
\* own signature (another sender, a tampered body, a damaged header).
MaxUntrusted == 1
\* Characters in the text of a monetary field.
MaxStrLen == 3

(* ------------------------- program constants -------------------------- *)

\* const maxAttempts = 3
maxAttempts == 3

ORDERS_TABLE_ID == "events_orders"
PRODUCTS_TABLE_ID == "events_v4_product_metrics_table"

(* ------------------------------ inputs -------------------------------- *)

Reqs == 1..NReq

\* order.id values the senders use (truthy numbers).
OrderIds == {1, 2}

\* One byte unit of a line item's title as transmitted: "FFFD" is the UTF-8
\* encoding of U+FFFD (EF BF BD), "xFF" a byte that is not valid UTF-8.
TitleBytes == {"FFFD", "xFF"}

\* The secret the storefront signs with, and the key of another sender.
StoreKey == "k1"
OtherKey == "k0"

\* process.env.SHOPIFY_WEBHOOK_SECRET: unset (modelled as "") or the
\* storefront's key.
SecretValues == {"", StoreKey}

RECURSIVE SeqsUpTo(_, _)
SeqsUpTo(S, n) ==
    IF n = 0 THEN {<<>>}
    ELSE LET shorter == SeqsUpTo(S, n - 1)
         IN  shorter \cup {Append(s, x) : s \in {t \in shorter : Len(t) = n - 1}, x \in S}

\* A request body as transmitted, by what it parses to.  kind: "none" (no
\* body: req.body is undefined), "string" (JSON that is no object) or
\* "object"; id: the object's id, 0 when it has none; li: whether line_items
\* is "absent", "notarray" (present, no array) or an "array"; items: the
\* titles of the array's line items, as transmitted.
Body(kind, id, li, items) == [kind |-> kind, id |-> id, li |-> li, items |-> items]

OrderBodies == {Body("object", id, "array", items) : id \in OrderIds, items \in SeqsUpTo(TitleBytes, MaxItems)}

\* Bodies that fail validation: no body at all, a body that is no object, an
\* object without id, one without line_items, one whose line_items is no array.
BadBodies ==
    {Body("none", 0, "absent", <<>>), Body("string", 0, "absent", <<>>),
     Body("object", 0, "array", <<>>), Body("object", 1, "absent", <<>>),
     Body("object", 1, "notarray", <<>>)}

IsUtf8(wire) == \A i \in 1..Len(wire.items) : wire.items[i] # "xFF"

\* What the storefront sends: well-formed UTF-8 text of any shape.
StoreBodies == {b \in OrderBodies : IsUtf8(b)} \cup BadBodies

(* ------------------------- body capture (9-15) ------------------------ *)

\* buf.toString("utf8") on one byte unit: invalid bytes decode to U+FFFD.
DecodeUnit(u) == IF u = "xFF" THEN "FFFD" ELSE u

\* req.rawBody = buf.toString("utf8"): the text of the body.  The text is
\* represented by the bytes of its UTF-8 encoding, which is what
\* .update(rawBody, "utf8") feeds to the HMAC.
BufToString(wire) == [wire EXCEPT !.items = [i \in 1..Len(wire.items) |-> DecodeUnit(wire.items[i])]]

\* req.body: express.json parses the decoded text.
JsonBody(wire) == BufToString(wire)

(* --------------------------- signatures ------------------------------- *)

\* base64(HMAC-SHA256(key, bytes)) as a string of fixed length: an ideal
\* keyed hash, equal for equal (key, bytes) only.
HmacBase64(key, bytes) == <<key, bytes>>

\* The headers a sender may attach to `wire`: its kind names how the header
\* relates to the body.
HeaderKinds == {"valid", "absent", "empty", "stale", "wrongkey", "long"}

\* The body a stale header was issued for: the same order with its text
\* intact when `wire` carries a damaged byte, the order of another id else.
OriginalOf(wire) ==
    IF IsUtf8(wire) THEN [wire EXCEPT !.id = IF wire.id = 1 THEN 2 ELSE 1]
    ELSE BufToString(wire)

\* The X-Shopify-Hmac-Sha256 header of a request: present or not, and its
\* value, a string as a sequence.
Header(kind, wire) ==
    CASE kind = "valid" -> [present |-> TRUE, value |-> HmacBase64(StoreKey, wire)]
      [] kind = "absent" -> [present |-> FALSE, value |-> <<>>]
      [] kind = "empty" -> [present |-> TRUE, value |-> <<>>]
      [] kind = "stale" -> [present |-> TRUE, value |-> HmacBase64(StoreKey, OriginalOf(wire))]
      [] kind = "wrongkey" -> [present |-> TRUE, value |-> HmacBase64(OtherKey, wire)]
      [] kind = "long" -> [present |-> TRUE, value |-> Append(HmacBase64(StoreKey, wire), "=")]

(* ------------------------------ state --------------------------------- *)

VARIABLES
    secret,         \* SHOPIFY_WEBHOOK_SECRET, fixed at process start
    reqs,           \* per request: handler position, inputs, locals, output
    ordersTable,    \* rows of retail_mvp.events_orders
    productsTable,  \* rows of retail_mvp.events_v4_product_metrics_table
    failures,       \* warehouse calls failed by the warehouse so far
    untrusted       \* requests received so far that were no storefront delivery

vars == <<secret, reqs, ordersTable, productsTable, failures, untrusted>>

\* One entry of what a request wrote to the console and called, in program
\* order: e the kind, t the table or error text, n a number (attempt, rows,
\* status).
Ev(e, t, n) == [e |-> e, t |-> t, n |-> n]

NoResp == [status |-> 0, text |-> ""]

\* A request not yet received.  verified, validated, order, checkRows,
\* occurred_at, orderRow and productRows are the handler's locals (-1: the
\* duplicate check has not returned; <<>>: not assigned); after is the set
\* of requests already answered when this one arrived.
IdleReq ==
    [st |-> "idle", wire |-> Body("none", 0, "absent", <<>>),
     hdr |-> [present |-> FALSE, value |-> <<>>],
     verified |-> FALSE, validated |-> FALSE, checkRows |-> -1, attempt |-> 0,
     order |-> <<>>, occurred_at |-> [t |-> "undef", s |-> <<>>, n |-> 0],
     orderRow |-> <<>>, productRows |-> <<>>,
     resp |-> NoResp, trace |-> <<>>, after |-> {}]

Init ==
    /\ secret \in SecretValues
    /\ reqs = [r \in Reqs |-> IdleReq]
    /\ ordersTable = {}
    /\ productsTable = {}
    /\ failures = 0
    /\ untrusted = 0

(* --------------------- verifyShopifyHmac (27-56) ---------------------- *)

\* crypto.timingSafeEqual: throws on buffers of different length.
TimingSafeEqual(a, b) ==
    IF Len(a) # Len(b) THEN "throw" ELSE IF a = b THEN "true" ELSE "false"

\* Mutant of verifyShopifyHmac: insecure mode accepts without the warning.
verifyShopifyHmac_Silent(key, req) ==
    IF key = ""
    THEN [ret |-> TRUE, logs |-> <<>>]
    ELSE LET hmacHeader == IF req.hdr.present THEN req.hdr.value ELSE <<>>
             generatedHash == HmacBase64(key, BufToString(req.wire))
         IN  IF Len(generatedHash) # Len(hmacHeader)
             THEN [ret |-> FALSE, logs |-> <<>>]
             ELSE [ret |-> TimingSafeEqual(generatedHash, hmacHeader) = "true", logs |-> <<>>]

\* Returns [ret, logs]: the verdict and what it wrote to the console.
verifyShopifyHmac(key, req) ==
    IF key = ""
    THEN [ret |-> TRUE, logs |-> <<Ev("warn_nosecret", "", 0)>>]
    ELSE LET hmacHeader == IF req.hdr.present THEN req.hdr.value ELSE <<>>
             rawBody == BufToString(req.wire)
             generatedHash == HmacBase64(key, rawBody)
         IN  IF Len(generatedHash) # Len(hmacHeader)
             THEN [ret |-> FALSE, logs |-> <<>>]
             ELSE LET eq == TimingSafeEqual(generatedHash, hmacHeader)
                  IN  IF eq = "throw"
                      THEN [ret |-> FALSE, logs |-> <<Ev("err_compare", "", 0)>>]
                      ELSE [ret |-> eq = "true", logs |-> <<>>]

(* -------------------------- the handler ------------------------------- *)

Log(req, ev) == [req EXCEPT !.trace = Append(@, ev)]

\* res.status(status).send(text)
Respond(req, status, text) ==
    [Log(req, Ev("respond", text, status)) EXCEPT
        !.st = "done", !.resp = [status |-> status, text |-> text]]

\* Mutant of Catch: the response carries the error's text.
Catch_LeaksError(req, err) ==
    Respond(Log(req, Ev("err_unhandled", err, 0)), 500, err)

\* Mutant of Catch: the error is logged and no response is sent.
Catch_NoResponse(req, err) ==
    [Log(req, Ev("err_unhandled", err, 0)) EXCEPT !.st = "hung"]

\* catch (err): logs the error, answers with a fixed text.
Catch(req, err) ==
    Respond(Log(req, Ev("err_unhandled", err, 0)), 500, "Internal error")

\* order.id of a parsed body: undefined (0) on a value that is no object.
IdOf(order) == IF order.kind = "object" THEN order.id ELSE 0

\* Array.isArray(order.line_items)
IsArray(order) == order.kind = "object" /\ order.li = "array"

\* Mutant of ValidPayload: line_items is only required to be present.
ValidPayload_NoArrayCheck(order) ==
    ~(order.kind = "none" \/ IdOf(order) = 0 \/ order.li = "absent")

\* The payload check passes:
\* !(!order || !order.id || !Array.isArray(order.line_items))
ValidPayload(order) ==
    ~(order.kind = "none" \/ IdOf(order) = 0 \/ ~IsArray(order))

\* order.id.toString()
IdToString(id) == CASE id = 1 -> "1" [] id = 2 -> "2" [] OTHER -> "0"

OrderId(order) == IdToString(IdOf(order))

(* ----------------------- field values (125-157) ---------------------- *)

\* A JavaScript value of a payload field: undefined, null, a string s (a
\* sequence of characters or tokens) or a number n.  Numbers are fixed-point,
\* in units of 10^-MaxStrLen; NaN is a value of its own.  A clock reading is
\* the string of its ISO form, told apart by n.
Undef == [t |-> "undef", s |-> <<>>, n |-> 0]
Null == [t |-> "null", s |-> <<>>, n |-> 0]
NaN == [t |-> "nan", s |-> <<>>, n |-> 0]
Str(s) == [t |-> "str", s |-> s, n |-> 0]
Num(n) == [t |-> "num", s |-> <<>>, n |-> n]

\* new Date().toISOString() read at tick n of the clock.
IsoNow(n) == [t |-> "str", s |-> <<"now">>, n |-> n]

\* Truthiness: undefined, null, "", 0 and NaN are falsy.
Truthy(v) == (v.t = "str" /\ v.s # <<>>) \/ (v.t = "num" /\ v.n # 0)

\* v || d
OrElse(v, d) == IF Truthy(v) THEN v ELSE d

RECURSIVE Pow10(_)
Pow10(k) == IF k = 0 THEN 1 ELSE 10 * Pow10(k - 1)

\* One unit is 10^-MaxStrLen.
Scale == Pow10(MaxStrLen)

\* The characters of a field's text: two digits, the point, a letter.
Chars == {"0", "5", ".", "a"}
Digits == {"0", "5"}
DigitVal(c) == IF c = "5" THEN 5 ELSE 0

\* The length of the longest prefix of s made of digits.
RECURSIVE DigitRun(_)
DigitRun(s) ==
    IF s = <<>> \/ Head(s) \notin Digits THEN 0 ELSE 1 + DigitRun(Tail(s))

\* The integer a sequence of digits writes.
RECURSIVE Dec(_)
Dec(ds) == IF ds = <<>> THEN 0 ELSE 10 * Dec(SubSeq(ds, 1, Len(ds) - 1)) + DigitVal(ds[Len(ds)])

\* The number with integer digits ip and fraction digits fp.
Fixed(ip, fp) == Dec(ip) * Scale + Dec(fp) * Pow10(MaxStrLen - Len(fp))

\* parseFloat on a string: the longest prefix digits [. digits] with at
\* least one digit, NaN when there is none.
ParseFloatStr(s) ==
    LET Parse[text \in {s}] ==
            LET k == DigitRun(text)
                ip == SubSeq(text, 1, k)
                rest == SubSeq(text, k + 1, Len(text))
                hasPoint == rest # <<>> /\ Head(rest) = "."
                m == IF hasPoint THEN DigitRun(Tail(rest)) ELSE 0
                fp == IF hasPoint THEN SubSeq(Tail(rest), 1, m) ELSE <<>>
            IN  IF k = 0 /\ m = 0 THEN NaN ELSE Num(Fixed(ip, fp))
    IN  Parse[s]

\* parseFloat(v): a number is converted to its text first.
ParseFloat(v) ==
    CASE v.t = "num" -> v
      [] v.t = "str" -> ParseFloatStr(v.s)
      [] OTHER -> NaN

\* parseFloat(x || 0)
Money(x) == ParseFloat(OrElse(x, Num(0)))

\* x || null
OrNull(x) == OrElse(x, Null)

\* const occurred_at = order.created_at || new Date().toISOString()
OccurredAt(order, clock) == OrElse(order.created_at, IsoNow(clock))

\* const shop_id = order?.source_name || "SHOPIFY"
ShopId(order) == OrElse(order.source_name, Str(<<"SHOPIFY">>))

\* const currency = order.currency || "USD"
Currency(order) == OrElse(order.currency, Str(<<"USD">>))

\* The order-level row of a parsed order with its fields.
OrderRow(order, occurred_at) ==
    [order_id |-> IdToString(order.id),
     occurred_at |-> occurred_at,
     shop_id |-> ShopId(order),
     total_price |-> Money(order.total_price),
     total_discount |-> Money(order.total_discounts),
     currency |-> Currency(order),
     source |-> "shopify_webhook"]

\* The product-level rows, one per line item, in order.
ProductRows(order, occurred_at) ==
    [i \in 1..Len(order.line_items) |->
        [order_id |-> IdToString(order.id),
         occurred_at |-> occurred_at,
         shop_id |-> ShopId(order),
         product_title |-> OrNull(order.line_items[i].title),
         price |-> Money(order.line_items[i].price),
         total_discount |-> Money(order.line_items[i].total_discount),
         currency |-> Currency(order),
         source |-> "shopify_webhook"]]

\* The fields the storefront's orders carry besides id and line items: order
\* 1 states all of them, order 2 leaves them out or empty.
Catalogue(id) ==
    IF id = 1
    THEN [created_at |-> Str(<<"2024-01-01T00:00:00Z">>), source_name |-> Str(<<"pos">>),
          currency |-> Str(<<"EUR">>), total_price |-> Str(<<"5", ".", "5">>),
          total_discounts |-> Str(<<"0", ".", "5">>), price |-> Str(<<"5">>),
          total_discount |-> Undef]
    ELSE [created_at |-> Undef, source_name |-> Str(<<>>),
          currency |-> Undef, total_price |-> Num(5 * Scale),
          total_discounts |-> Undef, price |-> Str(<<>>),
          total_discount |-> Str(<<"5">>)]

\* req.body of a valid request with all the fields the handler reads.
ParsedOrder(body) ==
    LET c == Catalogue(IdOf(body))
    IN  [id |-> IdOf(body), created_at |-> c.created_at, source_name |-> c.source_name,
         currency |-> c.currency, total_price |-> c.total_price,
         total_discounts |-> c.total_discounts,
         line_items |-> [i \in 1..Len(body.items) |->
                            [title |-> Str(<<body.items[i]>>), price |-> c.price,
                             total_discount |-> c.total_discount]]]

\* The row list a request passes to insertWithRetry for `table`:
\* [orderRow] or productRows.
RowsFor(req, table) ==
    IF table = ORDERS_TABLE_ID THEN <<req.orderRow>> ELSE req.productRows

\* Lines 82-116: from the arrival to the duplicate-check query.
HandlerStart(key, req) ==
    LET v == verifyShopifyHmac(key, req)
        r1 == [req EXCEPT !.trace = @ \o v.logs, !.verified = v.ret]
        order == JsonBody(req.wire)
    IN  IF ~v.ret
        THEN Respond(Log(r1, Ev("warn_hmac", "", 0)), 401, "Invalid signature")
        ELSE IF ~ValidPayload(order)
        THEN Respond(Log(r1, Ev("warn_payload", "", 0)), 400, "Invalid payload")
        ELSE [Log(Log(r1, Ev("log_received", "", Len(order.items))), Ev("query_call", "", 0))
                 EXCEPT !.st = "query", !.validated = TRUE, !.order = ParsedOrder(order)]

\* A request's clock reading: the clock is read by how far the request has
\* come.
Clock(req) == Len(req.trace)

\* Lines 125-157: the common fields are computed, once, and the rows are
\* built from them.
Prepare(req) ==
    LET occurred_at == OccurredAt(req.order, Clock(req))
    IN  [req EXCEPT !.occurred_at = occurred_at,
                    !.orderRow = OrderRow(req.order, occurred_at),
                    !.productRows = ProductRows(req.order, occurred_at)]

\* The call table.insert(rows) of attempt n of insertWithRetry.
CallInsert(req, table, n) ==
    [Log(req, Ev("insert_call", table, n)) EXCEPT !.st = table, !.attempt = n]

\* Mutant of AfterQuery: the result of the duplicate check is not acted on.
AfterQuery_NoShortCircuit(req, found) ==
    CallInsert(Prepare([Log(req, Ev("query_ret", "", found)) EXCEPT !.checkRows = found]),
               ORDERS_TABLE_ID, 1)

\* Mutant of AfterQuery: the product rows are written first.
AfterQuery_ProductsFirst(req, found) ==
    LET r1 == [Log(req, Ev("query_ret", "", found)) EXCEPT !.checkRows = found]
    IN  IF found > 0
        THEN Respond(Log(r1, Ev("log_already", "", 0)), 200, "Already processed")
        ELSE CallInsert(Prepare(r1), PRODUCTS_TABLE_ID, 1)

\* Lines 118-160: from the return of the query with `found` rows to the
\* first insert into the order table.
AfterQuery(req, found) ==
    LET r1 == [Log(req, Ev("query_ret", "", found)) EXCEPT !.checkRows = found]
    IN  IF found > 0
        THEN Respond(Log(r1, Ev("log_already", "", 0)), 200, "Already processed")
        ELSE CallInsert(Prepare(r1), ORDERS_TABLE_ID, 1)

\* Mutant of insertWithRetry: the loop gives up one attempt early.
insertWithRetry_OffByOne(req, table, rows, err) ==
    IF err = ""
    THEN [req |-> Log(Log(req, Ev("insert_ret", table, req.attempt)),
                      Ev("log_inserted", table, Len(rows))),
          out |-> "return"]
    ELSE LET r1 == Log(Log(req, Ev(err, table, req.attempt)),
                       Ev("err_attempt", table, req.attempt))
         IN  IF req.attempt + 1 = maxAttempts
             THEN [req |-> r1, out |-> "throw"]
             ELSE [req |-> CallInsert(r1, table, req.attempt + 1), out |-> "await"]

\* Mutant of insertWithRetry: a successful attempt does not leave the loop.
insertWithRetry_NoReturn(req, table, rows, err) ==
    LET r1 == IF err = ""
              THEN Log(Log(req, Ev("insert_ret", table, req.attempt)),
                       Ev("log_inserted", table, Len(rows)))
              ELSE Log(Log(req, Ev(err, table, req.attempt)),
                       Ev("err_attempt", table, req.attempt))
    IN  IF req.attempt = maxAttempts
        THEN [req |-> r1, out |-> IF err = "" THEN "return" ELSE "throw"]
        ELSE [req |-> CallInsert(r1, table, req.attempt + 1), out |-> "await"]

\* insertWithRetry (59-78), one turn of its loop: the awaited insert of
\* attempt req.attempt settled with error `err` ("" when it resolved).
\* out: "return" (rows inserted), "throw" (third failure), "await" (retry).
insertWithRetry(req, table, rows, err) ==
    IF err = ""
    THEN [req |-> Log(Log(req, Ev("insert_ret", table, req.attempt)),
                      Ev("log_inserted", table, Len(rows))),
          out |-> "return"]
    ELSE LET r1 == Log(Log(req, Ev(err, table, req.attempt)),
                       Ev("err_attempt", table, req.attempt))
         IN  IF req.attempt = maxAttempts
             THEN [req |-> r1, out |-> "throw"]
             ELSE [req |-> CallInsert(r1, table, req.attempt + 1), out |-> "await"]

\* Mutant of AfterInsert: a failed order insert does not stop the handler.
AfterInsert_SwallowsOrderFailure(req, table, err) ==
    LET res == insertWithRetry(req, table, RowsFor(req, table), err)
    IN  CASE res.out = "await" -> res.req
          [] res.out = "throw" /\ table = PRODUCTS_TABLE_ID -> Catch(res.req, err)
          [] OTHER ->
                IF table = ORDERS_TABLE_ID
                THEN CallInsert(res.req, PRODUCTS_TABLE_ID, 1)
                ELSE Respond(Log(res.req, Ev("log_stored", "", 0)), 200, "OK")

\* Lines 160-173: what the handler does when insertWithRetry for `table`
\* returns, throws or retries.
AfterInsert(req, table, err) ==
    LET res == insertWithRetry(req, table, RowsFor(req, table), err)
    IN  CASE res.out = "throw" -> Catch(res.req, err)
          [] res.out = "await" -> res.req
          [] OTHER ->
                IF table = ORDERS_TABLE_ID
                THEN CallInsert(res.req, PRODUCTS_TABLE_ID, 1)
                ELSE Respond(Log(res.req, Ev("log_stored", "", 0)), 200, "OK")

(* --------------------------- the warehouse ---------------------------- *)

\* Mutant of Stored: the table keeps one row per row content.
Stored_Unique(r, rows) == {[row |-> rows[i], by |-> 0, idx |-> i] : i \in 1..Len(rows)}

\* The rows of one insert call as stored: each with the request and the
\* position it came from, so that equal rows of two inserts are two rows.
Stored(r, rows) == {[row |-> rows[i], by |-> r, idx |-> i] : i \in 1..Len(rows)}

\* Mutant of QueryRows: the query matches no row.
QueryRows_NoMatch(table, orderId) == 0

\* Mutant of QueryRows: the query has no WHERE clause.
QueryRows_AnyOrder(table, orderId) ==
    IF table # {} THEN 1 ELSE 0

\* SELECT 1 FROM events_orders WHERE order_id = @orderId LIMIT 1
QueryRows(table, orderId) ==
    IF \E s \in table : s.row.order_id = orderId THEN 1 ELSE 0

\* The BigQuery client refuses an insert of no rows before sending it
\* ("You must provide at least 1 row to be inserted.").
ClientRejects(rows) == Len(rows) = 0

(* ------------------------------ actions ------------------------------- *)

Arrive(r, wire, kind) ==
    LET req == [reqs[r] EXCEPT !.wire = wire, !.hdr = Header(kind, wire),
                               !.after = {q \in Reqs : reqs[q].st = "done"}]
    IN  reqs' = [reqs EXCEPT ![r] = HandlerStart(secret, req)]

\* Requests are numbered in the order they arrive.
NextToArrive(r) ==
    /\ reqs[r].st = "idle"
    /\ \A q \in Reqs : q < r => reqs[q].st # "idle"

\* The storefront delivers a body, signed over the bytes it sends.
Deliver(r) ==
    /\ NextToArrive(r)
    /\ \E wire \in StoreBodies : Arrive(r, wire, "valid")
    /\ UNCHANGED <<secret, ordersTable, productsTable, failures, untrusted>>

\* Any other request: an order body, possibly with a damaged byte, under
\* any header.
Submit(r) ==
    /\ NextToArrive(r)
    /\ untrusted < MaxUntrusted
    /\ \E wire \in OrderBodies, kind \in HeaderKinds :
          /\ ~(IsUtf8(wire) /\ kind = "valid")
          /\ Arrive(r, wire, kind)
    /\ untrusted' = untrusted + 1
    /\ UNCHANGED <<secret, ordersTable, productsTable, failures>>

\* The duplicate-check query returns its rows.
QueryReturn(r) ==
    /\ reqs[r].st = "query"
    /\ reqs' = [reqs EXCEPT ![r] =
                  AfterQuery(@, QueryRows(ordersTable, OrderId(JsonBody(@.wire))))]
    /\ UNCHANGED <<secret, ordersTable, productsTable, failures, untrusted>>

\* The duplicate-check query fails.
QueryFail(r) ==
    /\ reqs[r].st = "query"
    /\ failures < MaxFailures
    /\ failures' = failures + 1
    /\ reqs' = [reqs EXCEPT ![r] = Catch(Log(@, Ev("query_err", "", 0)), "query_error")]
    /\ UNCHANGED <<secret, ordersTable, productsTable, untrusted>>

\* An insert into the order table succeeds: the row is stored.
OrdersInsertOk(r) ==
    /\ reqs[r].st = ORDERS_TABLE_ID
    /\ ~ClientRejects(RowsFor(reqs[r], ORDERS_TABLE_ID))
    /\ ordersTable' = ordersTable \cup Stored(r, RowsFor(reqs[r], ORDERS_TABLE_ID))
    /\ reqs' = [reqs EXCEPT ![r] = AfterInsert(@, ORDERS_TABLE_ID, "")]
    /\ UNCHANGED <<secret, productsTable, failures, untrusted>>

\* An insert into the product table succeeds: the rows are stored.
ProductsInsertOk(r) ==
    /\ reqs[r].st = PRODUCTS_TABLE_ID
    /\ ~ClientRejects(RowsFor(reqs[r], PRODUCTS_TABLE_ID))
    /\ productsTable' = productsTable \cup Stored(r, RowsFor(reqs[r], PRODUCTS_TABLE_ID))
    /\ reqs' = [reqs EXCEPT ![r] = AfterInsert(@, PRODUCTS_TABLE_ID, "")]
    /\ UNCHANGED <<secret, ordersTable, failures, untrusted>>

\* An insert fails in the warehouse: nothing is stored.
InsertFail(r) ==
    /\ reqs[r].st \in {ORDERS_TABLE_ID, PRODUCTS_TABLE_ID}
    /\ ~ClientRejects(RowsFor(reqs[r], reqs[r].st))
    /\ failures < MaxFailures
    /\ failures' = failures + 1
    /\ reqs' = [reqs EXCEPT ![r] = AfterInsert(@, @.st, "insert_error")]
    /\ UNCHANGED <<secret, ordersTable, productsTable, untrusted>>

\* An insert of no rows is refused by the client: nothing is stored.
InsertRefused(r) ==
    /\ reqs[r].st \in {ORDERS_TABLE_ID, PRODUCTS_TABLE_ID}
    /\ ClientRejects(RowsFor(reqs[r], reqs[r].st))
    /\ reqs' = [reqs EXCEPT ![r] = AfterInsert(@, @.st, "no_rows_error")]
    /\ UNCHANGED <<secret, ordersTable, productsTable, failures, untrusted>>

Next ==
    \E r \in Reqs :
        \/ Deliver(r)
        \/ Submit(r)
        \/ QueryReturn(r)
        \/ QueryFail(r)
        \/ OrdersInsertOk(r)
        \/ ProductsInsertOk(r)
        \/ InsertFail(r)
        \/ InsertRefused(r)

Spec == Init /\ [][Next]_vars

\* The warehouse call request r is waiting for returns, with success or
\* failure.
Settle(r) ==
    \/ QueryReturn(r)
    \/ QueryFail(r)
    \/ OrdersInsertOk(r)
    \/ ProductsInsertOk(r)
    \/ InsertFail(r)
    \/ InsertRefused(r)

\* Every warehouse call eventually returns.
FairSpec == Spec /\ \A r \in Reqs : WF_vars(Settle(r))

(* ------------------- row construction on its own ---------------------- *)

\* Values of order.created_at: absent, null, empty, a timestamp, other text.
CreatedAtInputs ==
    {Undef, Null, Str(<<>>), Str(<<"2024-01-01T00:00:00Z">>), Str(<<"not-a-date">>)}

\* Values of a monetary field: absent, or any text of up to MaxStrLen
\* characters.
MoneyInputs == {Undef} \cup {Str(s) : s \in SeqsUpTo(Chars, MaxStrLen)}

\* The monetary fields of a payload: two of the order, two of each line item.
MoneyFields == {"total_price", "total_discounts", "price", "total_discount"}

\* An order whose monetary field f holds v and whose other monetary fields
\* hold "5", with n line items.
OrderWith(createdAt, f, v, n) ==
    LET Val(g) == IF g = f THEN v ELSE Str(<<"5">>)
    IN  [id |-> 1, created_at |-> createdAt, source_name |-> Undef, currency |-> Undef,
         total_price |-> Val("total_price"), total_discounts |-> Val("total_discounts"),
         line_items |-> [i \in 1..n |->
                            [title |-> Str(<<"FFFD">>), price |-> Val("price"),
                             total_discount |-> Val("total_discount")]]]

\* Payloads that pass the payload check, over all shapes of created_at and
\* of one monetary field.
NormOrders ==
    {OrderWith(c, f, v, n) :
        c \in CreatedAtInputs, f \in MoneyFields, v \in MoneyInputs, n \in 0..MaxItems}

\* A request whose duplicate check has just returned no row, with parsed
\* body `order`.
AtRowConstruction(order) ==
    [IdleReq EXCEPT !.st = "prepare", !.verified = TRUE, !.validated = TRUE,
                    !.checkRows = 0, !.order = order,
                    !.trace = <<Ev("log_received", "", Len(order.line_items)),
                                Ev("query_call", "", 0), Ev("query_ret", "", 0)>>]

InitNormalize ==
    /\ secret = StoreKey
    /\ \E order \in NormOrders :
          reqs = [r \in Reqs |-> IF r = 1 THEN AtRowConstruction(order) ELSE IdleReq]
    /\ ordersTable = {}
    /\ productsTable = {}
    /\ failures = 0
    /\ untrusted = 0

\* Lines 125-157 run: the common fields and the rows are built.
Normalize(r) ==
    /\ reqs[r].st = "prepare"
    /\ reqs' = [reqs EXCEPT ![r] = [Prepare(@) EXCEPT !.st = "prepared"]]
    /\ UNCHANGED <<secret, ordersTable, productsTable, failures, untrusted>>

NextNormalize == \E r \in Reqs : Normalize(r)

SpecNormalize == InitNormalize /\ [][NextNormalize]_vars

(* ------------------------ reading a state ----------------------------- *)

Received(r) == reqs[r].st # "idle"
Done(r) == reqs[r].st = "done"
Answered(r, status, text) == reqs[r].resp = [status |-> status, text |-> text]

\* The positions of request r's history holding an entry of kind e for t.
At(r, e, t) == {i \in 1..Len(reqs[r].trace) : reqs[r].trace[i].e = e /\ reqs[r].trace[i].t = t}
Has(r, e, t) == At(r, e, t) # {}

Tables == {ORDERS_TABLE_ID, PRODUCTS_TABLE_ID}

\* Warehouse calls request r has issued.
CallsAt(r) == At(r, "query_call", "") \cup At(r, "insert_call", ORDERS_TABLE_ID)
                \cup At(r, "insert_call", PRODUCTS_TABLE_ID)
InsertCallsAt(r) == CallsAt(r) \ At(r, "query_call", "")

\* A warehouse call of request r has failed, for whatever reason.
SomeCallFailed(r) ==
    \/ Has(r, "query_err", "")
    \/ \E t \in Tables : Has(r, "insert_error", t) \/ Has(r, "no_rows_error", t)

\* The order request r carries, once it passed verification and validation.
InPipeline(r) == reqs[r].verified /\ reqs[r].validated
OrderOf(r) == JsonBody(reqs[r].wire)
OrderIdOf(r) == OrderId(OrderOf(r))
ItemCount(r) == Len(OrderOf(r).items)

OrderRowsOf(x) == {s \in ordersTable : s.row.order_id = x}
ProductRowsOf(x) == {s \in productsTable : s.row.order_id = x}

\* Request b arrived after request a had been answered.
Follows(b, a) == a \in reqs[b].after

(* ------------------------------ claims -------------------------------- *)

\* C1: the same payload POSTed twice in sequence, passing verification and
\* validation, with no warehouse call failing and no other request for the
\* same order: once both are answered, the warehouse holds exactly one order
\* row and exactly N product rows for the order, the first request was
\* answered 200 "OK" and the second 200 "Already processed" without having
\* issued any insert.
C1_TwiceInSequence ==
    \A a, b \in Reqs :
        ( /\ a # b /\ Done(a) /\ Done(b) /\ Follows(b, a)
          /\ reqs[a].wire = reqs[b].wire
          /\ InPipeline(a) /\ InPipeline(b)
          /\ ~SomeCallFailed(a) /\ ~SomeCallFailed(b)
          /\ \A c \in Reqs \ {a, b} : ~(InPipeline(c) /\ OrderIdOf(c) = OrderIdOf(a)) )
        => /\ Cardinality(OrderRowsOf(OrderIdOf(a))) = 1
           /\ Cardinality(ProductRowsOf(OrderIdOf(a))) = ItemCount(a)
           /\ Answered(a, 200, "OK")
           /\ Answered(b, 200, "Already processed")
           /\ InsertCallsAt(b) = {}
           /\ \A s \in ordersTable \cup productsTable : s.by # b

\* C1 witness: an order with a line item was delivered twice in sequence
\* without failure and the second delivery was answered "Already processed".
C1_Witness ==
    \E a, b \in Reqs :
        /\ a # b /\ Done(a) /\ Done(b) /\ Follows(b, a)
        /\ reqs[a].wire = reqs[b].wire
        /\ InPipeline(a) /\ InPipeline(b)
        /\ ~SomeCallFailed(a) /\ ~SomeCallFailed(b)
        /\ ItemCount(a) >= 1
        /\ Answered(b, 200, "Already processed")
        /\ Cardinality(ProductRowsOf(OrderIdOf(a))) = ItemCount(a)

\* C2 (as claimed): in every reachable state the order table holds at most
\* one order row per order identifier.
C2_AtMostOneOrderRow ==
    \A x \in {IdToString(id) : id \in OrderIds} : Cardinality(OrderRowsOf(x)) <= 1

\* Requests for order x never overlapped: of any two of them, one arrived
\* after the other had been answered.
Sequential(x) ==
    \A a, b \in Reqs :
        (a # b /\ InPipeline(a) /\ InPipeline(b) /\ OrderIdOf(a) = x /\ OrderIdOf(b) = x)
        => (Follows(a, b) \/ Follows(b, a))

\* C2 (amended): for an order identifier whose requests never overlap in
\* time, the order table holds at most one order row, whatever inserts
\* failed and however often the sender redelivered.
C2_AtMostOneOrderRowSequential ==
    \A x \in {IdToString(id) : id \in OrderIds} :
        Sequential(x) => Cardinality(OrderRowsOf(x)) <= 1

\* C2 witness: a request stored its order row and was answered 500, the
\* redelivery that followed it was answered, and one order row is stored.
C2_Witness ==
    \E a, b \in Reqs :
        /\ a # b /\ Done(a) /\ Done(b) /\ Follows(b, a)
        /\ InPipeline(a) /\ InPipeline(b) /\ OrderIdOf(a) = OrderIdOf(b)
        /\ Answered(a, 500, "Internal error")
        /\ Cardinality(OrderRowsOf(OrderIdOf(a))) = 1

\* C3: whenever two requests for the same order identifier both saw no row
\* in the duplicate check and both had their order insert succeed, the order
\* table holds (at least) two order rows for that identifier, one of each.
C3_BothPassBothInsert ==
    \A a, b \in Reqs :
        ( /\ a # b /\ InPipeline(a) /\ InPipeline(b) /\ OrderIdOf(a) = OrderIdOf(b)
          /\ reqs[a].checkRows = 0 /\ reqs[b].checkRows = 0
          /\ Has(a, "insert_ret", ORDERS_TABLE_ID) /\ Has(b, "insert_ret", ORDERS_TABLE_ID) )
        => /\ Cardinality(OrderRowsOf(OrderIdOf(a))) >= 2
           /\ \E s \in OrderRowsOf(OrderIdOf(a)) : s.by = a
           /\ \E s \in OrderRowsOf(OrderIdOf(a)) : s.by = b

\* C3 witness: two concurrent requests for one order identifier, both
\* answered 200 "OK", and exactly two order rows stored for it.
C3_Witness ==
    \E a, b \in Reqs :
        /\ a # b /\ ~Follows(a, b) /\ ~Follows(b, a)
        /\ InPipeline(a) /\ InPipeline(b) /\ OrderIdOf(a) = OrderIdOf(b)
        /\ reqs[a].checkRows = 0 /\ reqs[b].checkRows = 0
        /\ Answered(a, 200, "OK") /\ Answered(b, 200, "OK")
        /\ Cardinality(OrderRowsOf(OrderIdOf(a))) = 2

\* The signature header of request r is not the digest of the body it
\* carries under the configured secret (or there is none).
HeaderMismatch(r) ==
    \/ ~reqs[r].hdr.present
    \/ reqs[r].hdr.value # HmacBase64(secret, reqs[r].wire)

\* C4 (as claimed): with a secret configured, every request whose signature
\* header is not the digest of its body under the secret is answered 401 and
\* makes no warehouse call; the verifier returned false.
C4_MismatchRejected ==
    secret # "" =>
        \A r \in Reqs :
            (Received(r) /\ HeaderMismatch(r))
            => /\ ~reqs[r].verified
               /\ Answered(r, 401, "Invalid signature")
               /\ CallsAt(r) = {}

\* The console entries of request r for failed attempts on table t, in order.
FailedAttempts(r, t) ==
    SelectSeq(reqs[r].trace, LAMBDA ev : ev.e = "err_attempt" /\ ev.t = t)

\* insertWithRetry for table t threw into request r's handler: the handler's
\* catch ran right after a failed attempt on t.
Thrown(r, t) ==
    \E i \in 2..Len(reqs[r].trace) :
        /\ reqs[r].trace[i].e = "err_unhandled"
        /\ reqs[r].trace[i - 1].e = "err_attempt" /\ reqs[r].trace[i - 1].t = t

\* C5: insertWithRetry for one table.  Failed attempts are logged with the
\* numbers 1, 2, ... and there is never a fourth attempt.  If attempts 1 and 2
\* failed and attempt 3 succeeded, nothing is thrown into the handler, which
\* goes on (to the product table, or to 200 "OK").  If attempts 1, 2 and 3
\* failed, there are exactly three failure entries and three attempts, the
\* error is thrown and the request is answered 500; and only then.
C5_RetryBound ==
    \A r \in Reqs : \A t \in Tables :
        LET fails == FailedAttempts(r, t)
            calls == At(r, "insert_call", t)
        IN  /\ Cardinality(calls) <= 3
            /\ \A i \in 1..Len(fails) : fails[i].n = i
            /\ (Len(fails) = 2 /\ Has(r, "insert_ret", t))
                  => /\ ~Thrown(r, t)
                     /\ Cardinality(calls) = 3
                     /\ IF t = ORDERS_TABLE_ID
                        THEN Has(r, "insert_call", PRODUCTS_TABLE_ID)
                        ELSE Answered(r, 200, "OK")
            /\ Len(fails) >= 3
                  => /\ Len(fails) = 3 /\ Cardinality(calls) = 3
                     /\ ~Has(r, "insert_ret", t)
                     /\ Thrown(r, t)
                     /\ Answered(r, 500, "Internal error")
            /\ Thrown(r, t) => Len(fails) = 3

\* C5 witness: one request whose order insert failed twice and then
\* succeeded and whose product insert failed three times, answered 500.
C5_Witness ==
    \E r \in Reqs :
        /\ Len(FailedAttempts(r, ORDERS_TABLE_ID)) = 2
        /\ Has(r, "insert_ret", ORDERS_TABLE_ID)
        /\ Len(FailedAttempts(r, PRODUCTS_TABLE_ID)) = 3
        /\ Has(r, "insert_error", PRODUCTS_TABLE_ID)
        /\ Answered(r, 500, "Internal error")

\* Entry s records the return or failure of the warehouse call of entry c.
Settles(s, c) ==
    IF c.e = "query_call"
    THEN s.e \in {"query_ret", "query_err"}
    ELSE s.e \in {"insert_ret", "insert_error", "no_rows_error"} /\ s.t = c.t /\ s.n = c.n

\* C6: within one request, every insert attempt begins after the duplicate
\* check has returned; every product-table attempt begins after an
\* order-table attempt has succeeded, and no order-table attempt follows it;
\* and no warehouse call begins before the previous one has settled.
C6_StepOrder ==
    \A r \in Reqs :
        LET tr == reqs[r].trace
        IN  /\ \A i \in InsertCallsAt(r) : \E j \in 1..(i - 1) : tr[j].e = "query_ret"
            /\ \A i \in At(r, "insert_call", PRODUCTS_TABLE_ID) :
                  /\ \E j \in 1..(i - 1) : tr[j].e = "insert_ret" /\ tr[j].t = ORDERS_TABLE_ID
                  /\ \A k \in At(r, "insert_call", ORDERS_TABLE_ID) : k < i
            /\ \A i, k \in CallsAt(r) :
                  i < k => \E j \in (i + 1)..(k - 1) : Settles(tr[j], tr[i])

\* C6 witness: a request that retried its order insert, then issued its
\* product insert.
C6_Witness ==
    \E r \in Reqs :
        /\ Has(r, "insert_error", ORDERS_TABLE_ID)
        /\ Has(r, "insert_ret", ORDERS_TABLE_ID)
        /\ Has(r, "insert_call", PRODUCTS_TABLE_ID)
        /\ Answered(r, 200, "OK")

\* The five responses of the endpoint.
FixedResponses ==
    {[status |-> 401, text |-> "Invalid signature"], [status |-> 400, text |-> "Invalid payload"],
     [status |-> 200, text |-> "Already processed"], [status |-> 200, text |-> "OK"],
     [status |-> 500, text |-> "Internal error"]}

\* C7: a request is answered 200 "OK" only if, in that request, verification
\* and validation passed, the duplicate check found no row and both inserts
\* succeeded; and every response is one of the five fixed ones (so it never
\* carries the text of a warehouse error).
C7_OkOnlyAfterAllSteps ==
    \A r \in Reqs :
        /\ Done(r) <=> reqs[r].resp # NoResp
        /\ Done(r) => reqs[r].resp \in FixedResponses
        /\ Answered(r, 200, "OK")
              => /\ reqs[r].verified /\ reqs[r].validated /\ reqs[r].checkRows = 0
                 /\ Has(r, "insert_ret", ORDERS_TABLE_ID)
                 /\ Has(r, "insert_ret", PRODUCTS_TABLE_ID)
                 /\ \E s \in ordersTable : s.by = r
                 /\ Cardinality({s \in productsTable : s.by = r}) = ItemCount(r)

\* C7 witness: one request answered 200 "OK" and another answered 500 after
\* a warehouse error.
C7_Witness ==
    \E a, b \in Reqs :
        /\ Answered(a, 200, "OK")
        /\ Answered(b, 500, "Internal error") /\ Has(b, "err_unhandled", "insert_error")

\* A warehouse call of request r failed in the warehouse.
WarehouseFailed(r) ==
    Has(r, "query_err", "") \/ \E t \in Tables : Has(r, "insert_error", t)

\* C8 (as claimed): a request that passed verification and validation for an
\* order not stored before, with no line items and no failure of the
\* warehouse, is answered 200 "OK", leaving one order row and no product row.
C8_EmptyLineItemsOk ==
    \A r \in Reqs :
        ( /\ Done(r) /\ InPipeline(r) /\ reqs[r].checkRows = 0
          /\ ItemCount(r) = 0 /\ ~WarehouseFailed(r) )
        => /\ Answered(r, 200, "OK")
           /\ Cardinality({s \in ordersTable : s.by = r}) = 1
           /\ {s \in productsTable : s.by = r} = {}

\* C9: with no secret configured, every request received passed
\* verification, whatever its header, and a warning was logged for it.
C9_InsecureModeWarns ==
    secret = "" =>
        \A r \in Reqs :
            Received(r)
            => /\ reqs[r].verified
               /\ Has(r, "warn_nosecret", "")
               /\ reqs[r].resp.status # 401

\* C9 witness: with no secret, requests with an absent, empty or foreign
\* header are in the pipeline, each with its warning.
C9_Witness ==
    /\ secret = ""
    /\ \E r \in Reqs :
          /\ Received(r) /\ reqs[r].verified /\ Has(r, "warn_nosecret", "")
          /\ reqs[r].hdr \in {Header(k, reqs[r].wire) : k \in {"absent", "empty", "wrongkey"}}
          /\ Answered(r, 200, "OK")

\* The payload of request r is one validation is to reject: no body, no
\* object, no id, or line_items absent or no array.
BadPayload(r) ==
    LET o == OrderOf(r)
    IN  o.kind # "object" \/ o.id = 0 \/ o.li # "array"

\* C10: a request that passed verification with such a payload is answered
\* 400, has made no warehouse call and has stored nothing.
C10_InvalidPayloadRejected ==
    \A r \in Reqs :
        (Received(r) /\ reqs[r].verified /\ BadPayload(r))
        => /\ Answered(r, 400, "Invalid payload")
           /\ CallsAt(r) = {}
           /\ \A s \in ordersTable \cup productsTable : s.by # r

\* C10 witness: a verified request whose line_items is no array was
\* answered 400 while another request's rows are stored.
C10_Witness ==
    \E r \in Reqs :
        /\ reqs[r].verified /\ reqs[r].wire.li = "notarray"
        /\ Answered(r, 400, "Invalid payload")
        /\ secret # ""
        /\ ordersTable # {}

\* C11: in every reachable state, every product row stored in the product
\* table has an order row with the same order identifier in the order table,
\* written by the same request.
C11_ProductRowHasOrderRow ==
    \A p \in productsTable :
        \E o \in ordersTable : o.by = p.by /\ o.row.order_id = p.row.order_id

\* C11 witness: while another request for the same order was failing on its
\* inserts, a request stored product rows, each next to the order row it
\* wrote itself.
C11_Witness ==
    \E a, b \in Reqs :
        /\ a # b /\ InPipeline(a) /\ InPipeline(b) /\ OrderIdOf(a) = OrderIdOf(b)
        /\ \E t \in Tables : Has(b, "insert_error", t)
        /\ \E p \in productsTable : p.by = a
        /\ \A p \in productsTable : \E o \in ordersTable : o.by = p.by

\* C12 (as claimed): verification is over the exact bytes received.  With a
\* secret configured, of two received requests whose bodies differ as byte
\* sequences and which carry the same signature header, at most one passes
\* the verifier: the raw bodies fed to the HMAC differ when the bytes differ.
C12_ExactBytes ==
    secret # "" =>
        \A a, b \in Reqs :
            ( /\ Received(a) /\ Received(b)
              /\ reqs[a].wire # reqs[b].wire
              /\ reqs[a].hdr.present /\ reqs[a].hdr = reqs[b].hdr )
            => /\ BufToString(reqs[a].wire) # BufToString(reqs[b].wire)
               /\ ~(reqs[a].verified /\ reqs[b].verified)

\* Request a wrote order x completely: both of its inserts returned and its
\* order row and all its product rows are stored.
WroteCompletely(a, x) ==
    /\ InPipeline(a) /\ OrderIdOf(a) = x
    /\ Has(a, "insert_ret", ORDERS_TABLE_ID) /\ Has(a, "insert_ret", PRODUCTS_TABLE_ID)
    /\ \E o \in OrderRowsOf(x) : o.by = a
    /\ Cardinality({p \in ProductRowsOf(x) : p.by = a}) = ItemCount(a)

\* Every request for order x so far carried the same body.
SamePayload(x) ==
    \A a, b \in Reqs :
        (InPipeline(a) /\ InPipeline(b) /\ OrderIdOf(a) = x /\ OrderIdOf(b) = x)
        => reqs[a].wire = reqs[b].wire

\* C14 (as claimed), for deliveries of one payload with at least one line
\* item that never overlap: whenever a request for order x is answered 200
\* "Already processed", an earlier request for x finished with both writes
\* successful, and the warehouse holds the order row and all N product rows.
C14_AlreadyProcessedIsStored ==
    \A r \in Reqs :
        ( /\ InPipeline(r) /\ Answered(r, 200, "Already processed")
          /\ ItemCount(r) >= 1
          /\ Sequential(OrderIdOf(r)) /\ SamePayload(OrderIdOf(r)) )
        => /\ \E a \in Reqs : Follows(r, a) /\ WroteCompletely(a, OrderIdOf(r))
           /\ OrderRowsOf(OrderIdOf(r)) # {}
           /\ Cardinality(ProductRowsOf(OrderIdOf(r))) >= ItemCount(r)

\* The warehouse calls request r issued after its handler's catch ran.
CallsAfterCatch(r) ==
    {i \in CallsAt(r) : \E j \in 1..(i - 1) : reqs[r].trace[j].e = "err_unhandled"}

\* C15: every warehouse failure ends the request with 500 and no further
\* warehouse call.  A failed duplicate-check query is not retried and no
\* insert is attempted; three failed attempts on the order table mean no
\* insert is attempted on the product table; three failed attempts on the
\* product table mean the order row the request wrote stays stored.
C15_FailureEndsRequest ==
    \A r \in Reqs :
        /\ CallsAfterCatch(r) = {}
        /\ Has(r, "query_err", "")
              => /\ Answered(r, 500, "Internal error")
                 /\ Cardinality(At(r, "query_call", "")) = 1
                 /\ InsertCallsAt(r) = {}
        /\ Len(FailedAttempts(r, ORDERS_TABLE_ID)) = maxAttempts
              => /\ Answered(r, 500, "Internal error")
                 /\ At(r, "insert_call", PRODUCTS_TABLE_ID) = {}
                 /\ \A s \in ordersTable \cup productsTable : s.by # r
        /\ Len(FailedAttempts(r, PRODUCTS_TABLE_ID)) = maxAttempts
              => /\ Answered(r, 500, "Internal error")
                 /\ \E o \in OrderRowsOf(OrderIdOf(r)) : o.by = r
                 /\ \A p \in productsTable : p.by # r

\* C15 witness: one request's duplicate check failed and it was answered 500
\* after that single call; another wrote its order row, then failed three
\* times on the product table and was answered 500, and the order row is
\* still stored.
C15_Witness ==
    \E a, b \in Reqs :
        /\ Has(a, "query_err", "") /\ Answered(a, 500, "Internal error")
        /\ Cardinality(CallsAt(a)) = 1
        /\ Has(b, "insert_error", PRODUCTS_TABLE_ID)
        /\ Len(FailedAttempts(b, PRODUCTS_TABLE_ID)) = maxAttempts
        /\ Answered(b, 500, "Internal error")
        /\ \E o \in ordersTable : o.by = b

\* The rows request r has stored in `table`.
StoredBy(r, table) == {s \in table : s.by = r}

\* Within request r, table t got at most three attempts and at most one
\* success, and no attempt after its success.
AttemptsBounded(r, t) ==
    /\ Cardinality(At(r, "insert_call", t)) <= maxAttempts
    /\ Cardinality(At(r, "insert_ret", t)) <= 1
    /\ \A i \in At(r, "insert_call", t), j \in At(r, "insert_ret", t) : i < j

\* Request r has added no row, or its one order row, and no product row or
\* all of its product rows.
AddsWholeRowSets(r) ==
    /\ Cardinality(StoredBy(r, ordersTable)) <= 1
    /\ Cardinality(StoredBy(r, productsTable)) \in {0, ItemCount(r)}
    /\ StoredBy(r, ordersTable) # {} <=> Has(r, "insert_ret", ORDERS_TABLE_ID)
    /\ StoredBy(r, productsTable) # {}
          => /\ Has(r, "insert_ret", PRODUCTS_TABLE_ID)
             /\ {s.row : s \in StoredBy(r, productsTable)} =
                   {RowsFor(reqs[r], PRODUCTS_TABLE_ID)[i] : i \in 1..ItemCount(r)}

\* C16: in every step, each destination table has had at most three insert
\* attempts and at most one successful insert per request, with no attempt
\* after the success; the row list passed for a table is the same on every
\* attempt (one order row, all the product rows); and a request has added at
\* most one order row and either none or all N of its product rows.
C16_OneInsertPerTable ==
    [][\A r \in Reqs :
          /\ \A t \in Tables : AttemptsBounded(r, t)'
          /\ AddsWholeRowSets(r)'
          /\ (InPipeline(r) /\ InsertCallsAt(r) # {})
                => /\ \A t \in Tables : RowsFor(reqs'[r], t) = RowsFor(reqs[r], t)
                   /\ Len(RowsFor(reqs[r], ORDERS_TABLE_ID)) = 1
                   /\ Len(RowsFor(reqs[r], PRODUCTS_TABLE_ID)) = ItemCount(r)]_vars

\* C16 witness: a request whose first two attempts failed on both tables
\* and whose third attempts succeeded was answered 200 "OK", having stored
\* one order row and its product rows.
C16_Witness ==
    \E r \in Reqs :
        /\ Answered(r, 200, "OK") /\ ItemCount(r) >= 1
        /\ \A t \in Tables : Cardinality(At(r, "insert_call", t)) = maxAttempts
        /\ Cardinality(StoredBy(r, ordersTable)) = 1
        /\ Cardinality(StoredBy(r, productsTable)) = ItemCount(r)

\* The positions of request r's history where a response was sent.
RespondAt(r) == {i \in 1..Len(reqs[r].trace) : reqs[r].trace[i].e = "respond"}

\* Request r has sent no response while it runs, and exactly one, as its
\* last act, once it is done.
RespondsOnce(r) ==
    /\ ~Done(r) => RespondAt(r) = {} /\ reqs[r].resp = NoResp
    /\ Done(r) => RespondAt(r) = {Len(reqs[r].trace)} /\ reqs[r].resp # NoResp

\* C17: provided every warehouse call eventually returns, every received
\* request eventually is done; it responds exactly once, and after its
\* response it takes no further step.
C17_TerminatesWithOneResponse ==
    /\ \A r \in Reqs : Received(r) ~> Done(r)
    /\ [](\A r \in Reqs : RespondsOnce(r))
    /\ [][\A r \in Reqs : Done(r) => reqs'[r] = reqs[r]]_vars

\* C17 witness: one request was answered 500 after a failed warehouse call
\* and another 200 "OK" after retries, each with a single response.
C17_Witness ==
    \E a, b \in Reqs :
        /\ Done(a) /\ Done(b)
        /\ Answered(a, 500, "Internal error") /\ Has(a, "err_unhandled", "insert_error")
        /\ Answered(b, 200, "OK") /\ Has(b, "insert_error", ORDERS_TABLE_ID)
        /\ Cardinality(RespondAt(a)) = 1 /\ Cardinality(RespondAt(b)) = 1

\* The sender of order x has redelivered one payload, one delivery at a
\* time, after every 500, and delivery b was answered 200: it redelivers no
\* more.
RedeliveryEnded(b) ==
    /\ InPipeline(b) /\ IsUtf8(reqs[b].wire)
    /\ Done(b) /\ reqs[b].resp.status = 200
    /\ Sequential(OrderIdOf(b)) /\ SamePayload(OrderIdOf(b))
    /\ \A a \in Reqs \ {b} :
          (InPipeline(a) /\ OrderIdOf(a) = OrderIdOf(b))
          => Follows(b, a) /\ Answered(a, 500, "Internal error")

\* C18 (as claimed), at the end of the redelivery: for a valid order x with
\* N >= 1 line items whose sender redelivered after every 500 until the
\* answer was 200, the warehouse holds exactly one order row and exactly N
\* product rows for x, whichever insert attempts failed before.
C18_RedeliveryConverges ==
    \A b \in Reqs :
        (RedeliveryEnded(b) /\ ItemCount(b) >= 1)
        => /\ Cardinality(OrderRowsOf(OrderIdOf(b))) = 1
           /\ Cardinality(ProductRowsOf(OrderIdOf(b))) = ItemCount(b)

\* The timestamp request r computes for itself: its own order's created_at,
\* or its own clock read when its duplicate check returned.
OwnOccurredAt(r) ==
    OccurredAt(ParsedOrder(OrderOf(r)),
               CHOOSE i \in At(r, "query_ret", "") : TRUE)

\* Row s, written by request r, carries r's own order identifier, timestamp,
\* shop identifier and currency.
OwnFields(r, s) ==
    /\ s.row.order_id = OrderIdOf(r)
    /\ s.row.occurred_at = OwnOccurredAt(r)
    /\ s.row.shop_id = ShopId(ParsedOrder(OrderOf(r)))
    /\ s.row.currency = Currency(ParsedOrder(OrderOf(r)))

\* The accepted requests so far are for pairwise distinct orders.
DistinctOrders ==
    \A a, b \in Reqs :
        (a # b /\ InPipeline(a) /\ InPipeline(b)) => OrderIdOf(a) # OrderIdOf(b)

\* C19: while the accepted requests are for pairwise distinct orders, under
\* every interleaving, each request that finished with no warehouse call
\* failing was answered 200 "OK" and the warehouse holds exactly one order
\* row and exactly its N product rows for its order; and every row in the
\* warehouse carries the order identifier, timestamp, shop identifier and
\* currency of the request that wrote it.
C19_DistinctOrdersIndependent ==
    DistinctOrders =>
        /\ \A r \in Reqs :
              (InPipeline(r) /\ Done(r) /\ ~SomeCallFailed(r))
              => /\ Answered(r, 200, "OK")
                 /\ Cardinality(OrderRowsOf(OrderIdOf(r))) = 1
                 /\ Cardinality(ProductRowsOf(OrderIdOf(r))) = ItemCount(r)
        /\ \A s \in ordersTable \cup productsTable : OwnFields(s.by, s)

\* C19 witness: two requests for different orders ran concurrently, their
\* steps interleaved, no call failed, and both were answered 200 "OK" with
\* their rows stored.
C19_Witness ==
    \E a, b \in Reqs :
        /\ a # b /\ InPipeline(a) /\ InPipeline(b) /\ OrderIdOf(a) # OrderIdOf(b)
        /\ ~Follows(a, b) /\ ~Follows(b, a)
        /\ ~SomeCallFailed(a) /\ ~SomeCallFailed(b)
        /\ Answered(a, 200, "OK") /\ Answered(b, 200, "OK")
        /\ ItemCount(a) >= 1 /\ ItemCount(b) >= 1
        /\ \E s \in productsTable : s.by = a /\ OwnFields(a, s)
        /\ \E s \in productsTable : s.by = b /\ OwnFields(b, s)
        /\ OwnOccurredAt(a) # OwnOccurredAt(b)

\* Request r has built its rows.
Prepared(r) == reqs[r].st = "prepared"

\* The monetary inputs of request r's payload, each with the row field built
\* from it.
MoneyPairs(r) ==
    LET o == reqs[r].order
    IN  {<<o.total_price, reqs[r].orderRow.total_price>>,
         <<o.total_discounts, reqs[r].orderRow.total_discount>>}
        \cup {<<o.line_items[i].price, reqs[r].productRows[i].price>> :
                 i \in 1..Len(o.line_items)}
        \cup {<<o.line_items[i].total_discount, reqs[r].productRows[i].total_discount>> :
                 i \in 1..Len(o.line_items)}

\* Text that looks like a number: digits with at most one decimal point.
NumericLooking(s) ==
    /\ \A i \in 1..Len(s) : s[i] \in Digits \cup {"."}
    /\ Cardinality({i \in 1..Len(s) : s[i] = "."}) <= 1
    /\ \E i \in 1..Len(s) : s[i] \in Digits

\* The number a numeric-looking text writes.
DecimalValue(s) ==
    LET p == IF \E i \in 1..Len(s) : s[i] = "."
             THEN CHOOSE i \in 1..Len(s) : s[i] = "."
             ELSE Len(s) + 1
        frac == SubSeq(s, p + 1, Len(s))
    IN  Dec(SubSeq(s, 1, p - 1)) * Scale + Dec(frac) * Pow10(MaxStrLen - Len(frac))

\* C13 (as claimed): for every monetary field of the order row and of each
\* product row, a numeric-looking text yields its value, an absent or empty
\* input yields zero, and for every input the output is a number, never NaN.
C13_MoneyIsNumber ==
    \A r \in Reqs :
        Prepared(r) =>
            \A pair \in MoneyPairs(r) :
                LET x == pair[1]
                    y == pair[2]
                IN  /\ (x.t = "str" /\ NumericLooking(x.s)) => y = Num(DecimalValue(x.s))
                    /\ x.t = "undef" => y = Num(0)
                    /\ x = Str(<<>>) => y = Num(0)
                    /\ y.t = "num"

\* Text that parses as a timestamp.
ParseableTime(v) == v.t = "str" /\ v.s = <<"2024-01-01T00:00:00Z">>

\* The time request r was received, as the handler would read it when it
\* builds the rows.
ReceiptTime(r) == IsoNow(CHOOSE i \in At(r, "query_ret", "") : TRUE)

\* C20 (as claimed): the timestamp of a request is the payload's created_at
\* when that is present and parseable as a timestamp and the time of receipt
\* otherwise (absent, empty or unparseable); the order row and every product
\* row of the request carry that one value.
C20_OccurredAt ==
    \A r \in Reqs :
        Prepared(r) =>
            LET c == reqs[r].order.created_at
            IN  /\ reqs[r].occurred_at = IF ParseableTime(c) THEN c ELSE ReceiptTime(r)
                /\ reqs[r].orderRow.occurred_at = reqs[r].occurred_at
                /\ \A i \in 1..Len(reqs[r].productRows) :
                      reqs[r].productRows[i].occurred_at = reqs[r].occurred_at

====
